---- MODULE Spec2Model ----
(***************************************************************************)
(* Model of docs/conf.py: the module-level computation of GITHUB_BRANCH by *)
(* determine_github_branch() and the Sphinx hook linkcode_resolve().       *)
(*                                                                         *)
(* A Python str that the code parses, concatenates or returns is the       *)
(* sequence of its characters.  A character is a TLA+ string: the          *)
(* character itself when it is ASCII ("1", "."), and its code point        *)
(* ("U+0662" for ARABIC-INDIC DIGIT TWO) otherwise.  S("main") is the str  *)
(* "main".  Strings the code only compares or uses as keys (the names of   *)
(* the environment variables, the keys of info, the domain, a module name, *)
(* an exception's name) are plain TLA+ strings.                            *)
(*                                                                         *)
(* os.environ and the info dict are functions whose DOMAIN is the set of   *)
(* keys present.  An outcome is a record [kind, value, exc]: kind is       *)
(* "return" (value is the str returned), "null" (None returned) or "raise" *)
(* (exc names the exception that propagates).                              *)
(***************************************************************************)
EXTENDS Integers, Sequences, FiniteSets, TLC

VARIABLES
    environ,        \* os.environ restricted to the three GITHUB_* variables
    sys_modules,    \* the names of the modules present in sys.modules
    pc,             \* "init": conf.py not executed yet; "loaded"; "failed"
    GITHUB_BRANCH,  \* the module global of line 195 (<<>> while unbound)
    raised,         \* the exception that ended the execution of conf.py, or ""
    last            \* the latest linkcode_resolve call: its arguments and outcome

vars == <<environ, sys_modules, pc, GITHUB_BRANCH, raised, last>>

(***************************************************************************)
(* Bounds of the model.                                                    *)
(***************************************************************************)
\* longest GITHUB_REF_NAME drawn exhaustively from RefAlphabet
MaxRefLen == 4
\* deepest dotted path info["fullname"] drawn exhaustively from AttrNames
MaxDepth == 2

(***************************************************************************)
(* Strings and outcomes.                                                   *)
(***************************************************************************)
\* The str whose characters are those of the ASCII literal lit.
S(lit) == [i \in 1..Len(lit) |-> SubSeq(lit, i, i)]

Return(s) == [kind |-> "return", value |-> s, exc |-> ""]
Null == [kind |-> "null", value |-> <<>>, exc |-> ""]
Raise(e) == [kind |-> "raise", value |-> <<>>, exc |-> e]

Char(s, i) == s[i]

(***************************************************************************)
(* \d of a str pattern: every Unicode decimal digit (category Nd), ASCII   *)
(* or not.  NonAsciiDigits lists the non-ASCII ones of Unicode 14.0, the   *)
(* character database of Python 3.11.                                      *)
(***************************************************************************)
AsciiDigits == {"0", "1", "2", "3", "4", "5", "6", "7", "8", "9"}

NonAsciiDigits == {
    "U+0660", "U+0661", "U+0662", "U+0663", "U+0664", "U+0665",
    "U+0666", "U+0667", "U+0668", "U+0669", "U+06F0", "U+06F1",
    "U+06F2", "U+06F3", "U+06F4", "U+06F5", "U+06F6", "U+06F7",
    "U+06F8", "U+06F9", "U+07C0", "U+07C1", "U+07C2", "U+07C3",
    "U+07C4", "U+07C5", "U+07C6", "U+07C7", "U+07C8", "U+07C9",
    "U+0966", "U+0967", "U+0968", "U+0969", "U+096A", "U+096B",
    "U+096C", "U+096D", "U+096E", "U+096F", "U+09E6", "U+09E7",
    "U+09E8", "U+09E9", "U+09EA", "U+09EB", "U+09EC", "U+09ED",
    "U+09EE", "U+09EF", "U+0A66", "U+0A67", "U+0A68", "U+0A69",
    "U+0A6A", "U+0A6B", "U+0A6C", "U+0A6D", "U+0A6E", "U+0A6F",
    "U+0AE6", "U+0AE7", "U+0AE8", "U+0AE9", "U+0AEA", "U+0AEB",
    "U+0AEC", "U+0AED", "U+0AEE", "U+0AEF", "U+0B66", "U+0B67",
    "U+0B68", "U+0B69", "U+0B6A", "U+0B6B", "U+0B6C", "U+0B6D",
    "U+0B6E", "U+0B6F", "U+0BE6", "U+0BE7", "U+0BE8", "U+0BE9",
    "U+0BEA", "U+0BEB", "U+0BEC", "U+0BED", "U+0BEE", "U+0BEF",
    "U+0C66", "U+0C67", "U+0C68", "U+0C69", "U+0C6A", "U+0C6B",
    "U+0C6C", "U+0C6D", "U+0C6E", "U+0C6F", "U+0CE6", "U+0CE7",
    "U+0CE8", "U+0CE9", "U+0CEA", "U+0CEB", "U+0CEC", "U+0CED",
    "U+0CEE", "U+0CEF", "U+0D66", "U+0D67", "U+0D68", "U+0D69",
    "U+0D6A", "U+0D6B", "U+0D6C", "U+0D6D", "U+0D6E", "U+0D6F",
    "U+0DE6", "U+0DE7", "U+0DE8", "U+0DE9", "U+0DEA", "U+0DEB",
    "U+0DEC", "U+0DED", "U+0DEE", "U+0DEF", "U+0E50", "U+0E51",
    "U+0E52", "U+0E53", "U+0E54", "U+0E55", "U+0E56", "U+0E57",
    "U+0E58", "U+0E59", "U+0ED0", "U+0ED1", "U+0ED2", "U+0ED3",
    "U+0ED4", "U+0ED5", "U+0ED6", "U+0ED7", "U+0ED8", "U+0ED9",
    "U+0F20", "U+0F21", "U+0F22", "U+0F23", "U+0F24", "U+0F25",
    "U+0F26", "U+0F27", "U+0F28", "U+0F29", "U+1040", "U+1041",
    "U+1042", "U+1043", "U+1044", "U+1045", "U+1046", "U+1047",
    "U+1048", "U+1049", "U+1090", "U+1091", "U+1092", "U+1093",
    "U+1094", "U+1095", "U+1096", "U+1097", "U+1098", "U+1099",
    "U+17E0", "U+17E1", "U+17E2", "U+17E3", "U+17E4", "U+17E5",
    "U+17E6", "U+17E7", "U+17E8", "U+17E9", "U+1810", "U+1811",
    "U+1812", "U+1813", "U+1814", "U+1815", "U+1816", "U+1817",
    "U+1818", "U+1819", "U+1946", "U+1947", "U+1948", "U+1949",
    "U+194A", "U+194B", "U+194C", "U+194D", "U+194E", "U+194F",
    "U+19D0", "U+19D1", "U+19D2", "U+19D3", "U+19D4", "U+19D5",
    "U+19D6", "U+19D7", "U+19D8", "U+19D9", "U+1A80", "U+1A81",
    "U+1A82", "U+1A83", "U+1A84", "U+1A85", "U+1A86", "U+1A87",
    "U+1A88", "U+1A89", "U+1A90", "U+1A91", "U+1A92", "U+1A93",
    "U+1A94", "U+1A95", "U+1A96", "U+1A97", "U+1A98", "U+1A99",
    "U+1B50", "U+1B51", "U+1B52", "U+1B53", "U+1B54", "U+1B55",
    "U+1B56", "U+1B57", "U+1B58", "U+1B59", "U+1BB0", "U+1BB1",
    "U+1BB2", "U+1BB3", "U+1BB4", "U+1BB5", "U+1BB6", "U+1BB7",
    "U+1BB8", "U+1BB9", "U+1C40", "U+1C41", "U+1C42", "U+1C43",
    "U+1C44", "U+1C45", "U+1C46", "U+1C47", "U+1C48", "U+1C49",
    "U+1C50", "U+1C51", "U+1C52", "U+1C53", "U+1C54", "U+1C55",
    "U+1C56", "U+1C57", "U+1C58", "U+1C59", "U+A620", "U+A621",
    "U+A622", "U+A623", "U+A624", "U+A625", "U+A626", "U+A627",
    "U+A628", "U+A629", "U+A8D0", "U+A8D1", "U+A8D2", "U+A8D3",
    "U+A8D4", "U+A8D5", "U+A8D6", "U+A8D7", "U+A8D8", "U+A8D9",
    "U+A900", "U+A901", "U+A902", "U+A903", "U+A904", "U+A905",
    "U+A906", "U+A907", "U+A908", "U+A909", "U+A9D0", "U+A9D1",
    "U+A9D2", "U+A9D3", "U+A9D4", "U+A9D5", "U+A9D6", "U+A9D7",
    "U+A9D8", "U+A9D9", "U+A9F0", "U+A9F1", "U+A9F2", "U+A9F3",
    "U+A9F4", "U+A9F5", "U+A9F6", "U+A9F7", "U+A9F8", "U+A9F9",
    "U+AA50", "U+AA51", "U+AA52", "U+AA53", "U+AA54", "U+AA55",
    "U+AA56", "U+AA57", "U+AA58", "U+AA59", "U+ABF0", "U+ABF1",
    "U+ABF2", "U+ABF3", "U+ABF4", "U+ABF5", "U+ABF6", "U+ABF7",
    "U+ABF8", "U+ABF9", "U+FF10", "U+FF11", "U+FF12", "U+FF13",
    "U+FF14", "U+FF15", "U+FF16", "U+FF17", "U+FF18", "U+FF19",
    "U+104A0", "U+104A1", "U+104A2", "U+104A3", "U+104A4", "U+104A5",
    "U+104A6", "U+104A7", "U+104A8", "U+104A9", "U+10D30", "U+10D31",
    "U+10D32", "U+10D33", "U+10D34", "U+10D35", "U+10D36", "U+10D37",
    "U+10D38", "U+10D39", "U+11066", "U+11067", "U+11068", "U+11069",
    "U+1106A", "U+1106B", "U+1106C", "U+1106D", "U+1106E", "U+1106F",
    "U+110F0", "U+110F1", "U+110F2", "U+110F3", "U+110F4", "U+110F5",
    "U+110F6", "U+110F7", "U+110F8", "U+110F9", "U+11136", "U+11137",
    "U+11138", "U+11139", "U+1113A", "U+1113B", "U+1113C", "U+1113D",
    "U+1113E", "U+1113F", "U+111D0", "U+111D1", "U+111D2", "U+111D3",
    "U+111D4", "U+111D5", "U+111D6", "U+111D7", "U+111D8", "U+111D9",
    "U+112F0", "U+112F1", "U+112F2", "U+112F3", "U+112F4", "U+112F5",
    "U+112F6", "U+112F7", "U+112F8", "U+112F9", "U+11450", "U+11451",
    "U+11452", "U+11453", "U+11454", "U+11455", "U+11456", "U+11457",
    "U+11458", "U+11459", "U+114D0", "U+114D1", "U+114D2", "U+114D3",
    "U+114D4", "U+114D5", "U+114D6", "U+114D7", "U+114D8", "U+114D9",
    "U+11650", "U+11651", "U+11652", "U+11653", "U+11654", "U+11655",
    "U+11656", "U+11657", "U+11658", "U+11659", "U+116C0", "U+116C1",
    "U+116C2", "U+116C3", "U+116C4", "U+116C5", "U+116C6", "U+116C7",
    "U+116C8", "U+116C9", "U+11730", "U+11731", "U+11732", "U+11733",
    "U+11734", "U+11735", "U+11736", "U+11737", "U+11738", "U+11739",
    "U+118E0", "U+118E1", "U+118E2", "U+118E3", "U+118E4", "U+118E5",
    "U+118E6", "U+118E7", "U+118E8", "U+118E9", "U+11950", "U+11951",
    "U+11952", "U+11953", "U+11954", "U+11955", "U+11956", "U+11957",
    "U+11958", "U+11959", "U+11C50", "U+11C51", "U+11C52", "U+11C53",
    "U+11C54", "U+11C55", "U+11C56", "U+11C57", "U+11C58", "U+11C59",
    "U+11D50", "U+11D51", "U+11D52", "U+11D53", "U+11D54", "U+11D55",
    "U+11D56", "U+11D57", "U+11D58", "U+11D59", "U+11DA0", "U+11DA1",
    "U+11DA2", "U+11DA3", "U+11DA4", "U+11DA5", "U+11DA6", "U+11DA7",
    "U+11DA8", "U+11DA9", "U+16A60", "U+16A61", "U+16A62", "U+16A63",
    "U+16A64", "U+16A65", "U+16A66", "U+16A67", "U+16A68", "U+16A69",
    "U+16AC0", "U+16AC1", "U+16AC2", "U+16AC3", "U+16AC4", "U+16AC5",
    "U+16AC6", "U+16AC7", "U+16AC8", "U+16AC9", "U+16B50", "U+16B51",
    "U+16B52", "U+16B53", "U+16B54", "U+16B55", "U+16B56", "U+16B57",
    "U+16B58", "U+16B59", "U+1D7CE", "U+1D7CF", "U+1D7D0", "U+1D7D1",
    "U+1D7D2", "U+1D7D3", "U+1D7D4", "U+1D7D5", "U+1D7D6", "U+1D7D7",
    "U+1D7D8", "U+1D7D9", "U+1D7DA", "U+1D7DB", "U+1D7DC", "U+1D7DD",
    "U+1D7DE", "U+1D7DF", "U+1D7E0", "U+1D7E1", "U+1D7E2", "U+1D7E3",
    "U+1D7E4", "U+1D7E5", "U+1D7E6", "U+1D7E7", "U+1D7E8", "U+1D7E9",
    "U+1D7EA", "U+1D7EB", "U+1D7EC", "U+1D7ED", "U+1D7EE", "U+1D7EF",
    "U+1D7F0", "U+1D7F1", "U+1D7F2", "U+1D7F3", "U+1D7F4", "U+1D7F5",
    "U+1D7F6", "U+1D7F7", "U+1D7F8", "U+1D7F9", "U+1D7FA", "U+1D7FB",
    "U+1D7FC", "U+1D7FD", "U+1D7FE", "U+1D7FF", "U+1E140", "U+1E141",
    "U+1E142", "U+1E143", "U+1E144", "U+1E145", "U+1E146", "U+1E147",
    "U+1E148", "U+1E149", "U+1E2F0", "U+1E2F1", "U+1E2F2", "U+1E2F3",
    "U+1E2F4", "U+1E2F5", "U+1E2F6", "U+1E2F7", "U+1E2F8", "U+1E2F9",
    "U+1E950", "U+1E951", "U+1E952", "U+1E953", "U+1E954", "U+1E955",
    "U+1E956", "U+1E957", "U+1E958", "U+1E959", "U+1FBF0", "U+1FBF1",
    "U+1FBF2", "U+1FBF3", "U+1FBF4", "U+1FBF5", "U+1FBF6", "U+1FBF7",
    "U+1FBF8", "U+1FBF9"}

Digits == AsciiDigits \cup NonAsciiDigits

\* The number of consecutive digits of s from position i on: what a greedy
\* \d+ consumes there (0 when it cannot match).
RECURSIVE DigitRun(_, _)
DigitRun(s, i) ==
    IF i <= Len(s) /\ Char(s, i) \in Digits THEN 1 + DigitRun(s, i + 1) ELSE 0

\* Mutant: the minor number is matched lazily (\d+?), one digit only.
re_match_len_lazy(ref_name) ==
    LET n1 == DigitRun(ref_name, 1)
        n2 == DigitRun(ref_name, n1 + 2)
    IN  IF n1 > 0 /\ n1 + 1 <= Len(ref_name) /\ Char(ref_name, n1 + 1) = "." /\ n2 > 0
        THEN n1 + 1 + 1
        ELSE 0

\* re.match(r"(\d+\.\d+)", ref_name): the length of the match at the start of
\* ref_name, 0 standing for None.  Both \d+ are greedy, and giving digits back
\* never helps: the character after a shorter first run is a digit, not ".".
re_match_len(ref_name) ==
    LET n1 == DigitRun(ref_name, 1)
        n2 == DigitRun(ref_name, n1 + 2)
    IN  IF n1 > 0 /\ n1 + 1 <= Len(ref_name) /\ Char(ref_name, n1 + 1) = "." /\ n2 > 0
        THEN n1 + 1 + n2
        ELSE 0

(***************************************************************************)
(* determine_github_branch(), lines 169-192, on the environment env.       *)
(***************************************************************************)
\* Mutant: the ref type is consulted before the base ref.
determine_github_branch_type_first(env) ==
    IF "GITHUB_REF_NAME" \notin DOMAIN env
    THEN Return(S("main"))
    ELSE IF "GITHUB_REF_TYPE" \in DOMAIN env /\ env["GITHUB_REF_TYPE"] = S("branch")
    THEN Return(env["GITHUB_REF_NAME"])
    ELSE IF "GITHUB_BASE_REF" \in DOMAIN env /\ env["GITHUB_BASE_REF"] # <<>>
    THEN Return(env["GITHUB_BASE_REF"])
    ELSE IF "GITHUB_REF_TYPE" \notin DOMAIN env
    THEN Raise("KeyError")
    ELSE LET ref_name == env["GITHUB_REF_NAME"]
             n == re_match_len(ref_name)
         IN  IF n = 0
             THEN Raise("AttributeError")
             ELSE Return(S("stable/") \o SubSeq(ref_name, 1, n))

\* Mutant: a tag that does not match falls back to "main" instead of failing.
determine_github_branch_lenient(env) ==
    IF "GITHUB_REF_NAME" \notin DOMAIN env
    THEN Return(S("main"))
    ELSE IF "GITHUB_BASE_REF" \in DOMAIN env /\ env["GITHUB_BASE_REF"] # <<>>
    THEN Return(env["GITHUB_BASE_REF"])
    ELSE IF "GITHUB_REF_TYPE" \notin DOMAIN env
    THEN Raise("KeyError")
    ELSE IF env["GITHUB_REF_TYPE"] = S("branch")
    THEN Return(env["GITHUB_REF_NAME"])
    ELSE LET ref_name == env["GITHUB_REF_NAME"]
             n == re_match_len(ref_name)
         IN  IF n = 0
             THEN Return(S("main"))
             ELSE Return(S("stable/") \o SubSeq(ref_name, 1, n))

determine_github_branch(env) ==
    IF "GITHUB_REF_NAME" \notin DOMAIN env
    THEN Return(S("main"))
    ELSE IF "GITHUB_BASE_REF" \in DOMAIN env /\ env["GITHUB_BASE_REF"] # <<>>
    THEN Return(env["GITHUB_BASE_REF"])
    ELSE IF "GITHUB_REF_TYPE" \notin DOMAIN env
    THEN Raise("KeyError")
    ELSE IF env["GITHUB_REF_TYPE"] = S("branch")
    THEN Return(env["GITHUB_REF_NAME"])
    ELSE LET ref_name == env["GITHUB_REF_NAME"]
             n == re_match_len(ref_name)
         IN  IF n = 0
             THEN Raise("AttributeError")
             ELSE Return(S("stable/") \o SubSeq(ref_name, 1, n))

(***************************************************************************)
(* More string helpers: str.split, "/".join, the substring test and the    *)
(* decimal formatting of an f-string.                                      *)
(***************************************************************************)
\* s.split(sep) for a one-character sep, reading s from position i with the
\* current piece cur.
RECURSIVE SplitFrom(_, _, _, _)
SplitFrom(s, sep, i, cur) ==
    IF i > Len(s) THEN <<cur>>
    ELSE IF Char(s, i) = sep THEN <<cur>> \o SplitFrom(s, sep, i + 1, <<>>)
    ELSE SplitFrom(s, sep, i + 1, Append(cur, Char(s, i)))

Split(s, sep) == SplitFrom(s, sep, 1, <<>>)

\* sep.join(parts)
RECURSIVE Join(_, _)
Join(parts, sep) ==
    IF Len(parts) = 0 THEN <<>>
    ELSE IF Len(parts) = 1 THEN parts[1]
    ELSE parts[1] \o sep \o Join(Tail(parts), sep)

\* sub in s
Contains(s, sub) ==
    \E i \in 1..(Len(s) - Len(sub) + 1) : SubSeq(s, i, i + Len(sub) - 1) = sub

DecimalChars == S("0123456789")

\* f"{n}" for an int n >= 0
RECURSIVE IntToStr(_)
IntToStr(n) ==
    IF n < 10 THEN <<DecimalChars[n + 1]>>
    ELSE Append(IntToStr(n \div 10), DecimalChars[(n % 10) + 1])

(***************************************************************************)
(* PurePath (PurePosixPath), as far as lines 218-219 use it.  A path is    *)
(* the sequence of its parts: the root "/" (or "//") first when the path   *)
(* is absolute, then the components.  Parsing drops empty components (a    *)
(* repeated or trailing "/") and "." components; ".." is kept.             *)
(***************************************************************************)
\* The root of the path string s: "//" for exactly two leading slashes, "/"
\* for one or for three and more, none for a relative path.
path_root(s) ==
    IF Len(s) = 0 \/ Char(s, 1) # "/" THEN <<>>
    ELSE IF Len(s) >= 2 /\ Char(s, 2) = "/" /\ (Len(s) = 2 \/ Char(s, 3) # "/")
    THEN S("//")
    ELSE S("/")

PurePath(s) ==
    (IF path_root(s) = <<>> THEN <<>> ELSE <<path_root(s)>>)
    \o SelectSeq(Split(s, "/"), LAMBDA c : c # <<>> /\ c # <<".">>)

\* The path p starts with a root.
has_root(p) == Len(p) > 0 /\ Char(p[1], 1) = "/"

\* p.parent: the root and the empty path are their own parents.
parent(p) ==
    IF Len(p) = 0 \/ (Len(p) = 1 /\ has_root(p)) THEN p
    ELSE SubSeq(p, 1, Len(p) - 1)

IsPrefix(p, q) == Len(p) <= Len(q) /\ SubSeq(q, 1, Len(p)) = p

\* str(p) of a relative path p
path_str(p) == IF Len(p) = 0 THEN S(".") ELSE Join(p, S("/"))

\* p.relative_to(root), as a str: ValueError unless the parts of root start
\* those of p (an absolute p is not relative to the empty path).
relative_to(p, root) ==
    IF IsPrefix(root, p) /\ ~(Len(root) = 0 /\ has_root(p))
    THEN Return(path_str(SubSeq(p, Len(root) + 1, Len(p))))
    ELSE Raise("ValueError")

(***************************************************************************)
(* The live objects linkcode_resolve inspects.  What sys.modules holds,    *)
(* what getattr finds and what the inspect module answers belong to the    *)
(* interpreter; the model fixes one small object graph that has every kind *)
(* of object and every answer of inspect the function distinguishes.       *)
(*   kind        what inspect.isclass/ismethod/isfunction/isbuiltin see    *)
(*   attrs       the attributes getattr finds (among AttrNames)            *)
(*   sourcefile  inspect.getsourcefile(obj): a path, None or TypeError     *)
(*   lines       inspect.getsourcelines(obj): OSError (lineno 0), or the   *)
(*               starting line and the number of source lines              *)
(* The package was imported through the sys.path entry "/w//qiskit" in the *)
(* case of qiskit/run.py, so that file's name is not in normal form.       *)
(***************************************************************************)
ConfFile == S("/w/qiskit/docs/conf.py")

NoAttrs == [n \in {} |-> ""]
NoLines == [lineno |-> 0, count |-> 0]
Lines(l, c) == [lineno |-> l, count |-> c]
Obj(k, a, f, l) == [kind |-> k, attrs |-> a, sourcefile |-> f, lines |-> l]

Heap ==
    \* the package qiskit and its submodule qiskit.circuit
       "m_qiskit" :> Obj("module",
            (S("circuit") :> "m_circuit") @@ (S("Gate") :> "c_Gate") @@
            (S("run") :> "f_run") @@ (S("data") :> "i_data"),
            Return(S("/w/qiskit/qiskit/__init__.py")), NoLines)
    @@ "m_circuit" :> Obj("module",
            (S("Gate") :> "c_Gate") @@ (S("run") :> "b_run") @@ (S("data") :> "c_dyn"),
            Return(S("/w/qiskit/qiskit/circuit/__init__.py")), NoLines)
    \* a class of the package, its function, its bound classmethod, its property
    @@ "c_Gate" :> Obj("class",
            (S("run") :> "f_Gate_run") @@ (S("circuit") :> "bm_Gate")
            @@ (S("data") :> "i_prop"),
            Return(S("/w/qiskit/qiskit/circuit/gate.py")), Lines(98, 5))
    @@ "f_Gate_run" :> Obj("function", NoAttrs,
            Return(S("/w/qiskit/qiskit/circuit/gate.py")), Lines(100, 1))
    @@ "bm_Gate" :> Obj("method", NoAttrs,
            Return(S("/w/qiskit/qiskit/circuit/gate.py")), Lines(9, 2))
    @@ "i_prop" :> Obj("instance", NoAttrs, Raise("TypeError"), NoLines)
    \* a function whose source lines cannot be read
    @@ "f_run" :> Obj("function", NoAttrs,
            Return(S("/w//qiskit/qiskit/run.py")), NoLines)
    \* an instance that has an attribute holding a class
    @@ "i_data" :> Obj("instance", (S("Gate") :> "c_Gate"), Raise("TypeError"), NoLines)
    \* a native (extension) function
    @@ "b_run" :> Obj("builtin", NoAttrs, Raise("TypeError"), NoLines)
    \* a dynamically generated class: no source file
    @@ "c_dyn" :> Obj("class", NoAttrs, Null, NoLines)
    \* a module outside the package
    @@ "m_third" :> Obj("module",
            (S("Gate") :> "c_builtin") @@ (S("run") :> "f_third") @@
            (S("data") :> "c_site") @@ (S("circuit") :> "f_exec"),
            Return(S("/usr/lib/numpy/__init__.py")), NoLines)
    \* a built-in class: inspect.getfile raises TypeError
    @@ "c_builtin" :> Obj("class", NoAttrs, Raise("TypeError"), NoLines)
    \* a function of another package
    @@ "f_third" :> Obj("function", NoAttrs,
            Return(S("/usr/lib/numpy/run.py")), Lines(7, 3))
    \* a class of an installed copy of the package, outside the repository
    @@ "c_site" :> Obj("class", NoAttrs,
            Return(S("/usr/lib/qiskit/data.py")), Lines(1, 12))
    \* a function compiled from a string: no source file
    @@ "f_exec" :> Obj("function", NoAttrs, Null, NoLines)

\* The module object sys.modules holds under each name.
ModuleObject ==
    ("qiskit" :> "m_qiskit") @@ ("qiskit.circuit" :> "m_circuit") @@
    ("thirdparty" :> "m_third")

ModuleNames == DOMAIN ModuleObject

AttrNames == {S("circuit"), S("Gate"), S("run"), S("data"), S("nope")}

inspect_isclass(o) == Heap[o].kind = "class"
inspect_ismethod(o) == Heap[o].kind = "method"
inspect_isfunction(o) == Heap[o].kind = "function"
inspect_isbuiltin(o) == Heap[o].kind = "builtin"

\* Mutant: the ending line is computed without the "- 1".
linespec_off_by_one(o) ==
    IF Heap[o].lines.lineno = 0
    THEN <<>>
    ELSE LET lineno == Heap[o].lines.lineno
             ending_lineno == lineno + Heap[o].lines.count
         IN  S("#L") \o IntToStr(lineno) \o S("-L") \o IntToStr(ending_lineno)

\* inspect.getsourcelines(obj), lines 221-227: the linespec of the URL.
linespec(o) ==
    IF Heap[o].lines.lineno = 0
    THEN <<>>
    ELSE LET lineno == Heap[o].lines.lineno
             ending_lineno == lineno + Heap[o].lines.count - 1
         IN  S("#L") \o IntToStr(lineno) \o S("-L") \o IntToStr(ending_lineno)

\* Line 209-211.
is_valid_code_object(o) ==
    inspect_isclass(o) \/ inspect_ismethod(o)
        \/ (inspect_isfunction(o) /\ ~inspect_isbuiltin(o))

\* The loop of lines 207-213 from component i of parts on, obj being the
\* object reached so far: the object the loop ends on ([obj |-> it]), or the
\* outcome of the call, None or AttributeError.
RECURSIVE walk(_, _, _)
walk(obj, parts, i) ==
    IF i > Len(parts) THEN [obj |-> obj]
    ELSE IF parts[i] \notin DOMAIN Heap[obj].attrs THEN Raise("AttributeError")
    ELSE LET next == Heap[obj].attrs[parts[i]]
         IN  IF ~is_valid_code_object(next) THEN Null
             ELSE walk(next, parts, i + 1)

UrlPrefix == S("https://github.com/Qiskit/qiskit/tree/")

\* Lines 215-229, for the object the loop ended on.
link_of(obj, branch) ==
    LET full_file_name == Heap[obj].sourcefile
    IN  IF full_file_name.kind = "raise" THEN full_file_name
        ELSE IF full_file_name.kind = "null"
                \/ ~Contains(full_file_name.value, S("qiskit"))
        THEN Null
        ELSE LET repo_root == parent(parent(PurePath(ConfFile)))
                 file_name == relative_to(PurePath(full_file_name.value), repo_root)
             IN  IF file_name.kind = "raise" THEN file_name
                 ELSE Return(UrlPrefix \o branch \o S("/") \o file_name.value
                             \o linespec(obj))

\* linkcode_resolve(domain, info), lines 198-229, with sys.modules holding the
\* modules named in loaded and GITHUB_BRANCH being branch.
linkcode_result(domain, info, loaded, branch) ==
    IF domain # "py" THEN Null
    ELSE IF "module" \notin DOMAIN info THEN Raise("KeyError")
    ELSE IF info["module"] \notin loaded THEN Null
    ELSE IF "fullname" \notin DOMAIN info THEN Raise("KeyError")
    ELSE LET found == walk(ModuleObject[info["module"]], Split(info["fullname"], "."), 1)
         IN  IF "obj" \notin DOMAIN found THEN found
             ELSE link_of(found.obj, branch)

(***************************************************************************)
(* The inputs the model draws.                                             *)
(***************************************************************************)
\* All strings over the characters cs of length at most n.
RECURSIVE Strings(_, _)
Strings(cs, n) ==
    IF n = 0 THEN {<<>>}
    ELSE LET shorter == Strings(cs, n - 1)
         IN  shorter \cup {Append(s, c) : s \in shorter, c \in cs}

\* "U+0662" is ARABIC-INDIC DIGIT TWO, a digit for \d.
RefAlphabet == {"0", "1", ".", "c", "v", "U+0662"}

ExampleRefNames ==
    {S("1.2.3"), S("1.2.3rc1"), S("10.12.0"), S("notaversion"), S("v1.2.3"),
     S("feature-x"),
     <<"U+0661", ".", "U+0662", ".", "U+0663">>,
     <<"U+FF11", ".", "U+FF12">>,
     <<"1", ".", "U+0662", "r", "c", "1">>}

RefNames == Strings(RefAlphabet, MaxRefLen) \cup ExampleRefNames
BaseRefs == {<<>>, S("main"), S("stable/1.0")}
RefTypes == {S("branch"), S("tag")}

\* An optional value: <<>> (the variable is absent) or <<v>>.
Opt(V) == {<<>>} \cup {<<v>> : v \in V}

\* The environment with the given optional values of the three variables.
MkEnv(name, base, type) ==
    LET keys == (IF name # <<>> THEN {"GITHUB_REF_NAME"} ELSE {})
                \cup (IF base # <<>> THEN {"GITHUB_BASE_REF"} ELSE {})
                \cup (IF type # <<>> THEN {"GITHUB_REF_TYPE"} ELSE {})
    IN  [k \in keys |-> IF k = "GITHUB_REF_NAME" THEN name[1]
                         ELSE IF k = "GITHUB_BASE_REF" THEN base[1]
                         ELSE type[1]]

Envs(names, bases, types) ==
    {MkEnv(n, b, t) : n \in Opt(names), b \in Opt(bases), t \in Opt(types)}

\* The environments of the specification Spec, where the environment also
\* changes while the documentation is built.
BuildRefNames == {S("1.2.3rc1"), S("notaversion")}
BuildBaseRefs == {<<>>, S("main")}
BuildValues(k) ==
    IF k = "GITHUB_REF_NAME" THEN BuildRefNames
    ELSE IF k = "GITHUB_BASE_REF" THEN BuildBaseRefs
    ELSE RefTypes

EnvVars == {"GITHUB_REF_NAME", "GITHUB_BASE_REF", "GITHUB_REF_TYPE"}

\* The dotted names of at most d components over AttrNames.
RECURSIVE DottedNames(_)
DottedNames(d) ==
    IF d = 1 THEN AttrNames
    ELSE LET shorter == DottedNames(d - 1)
         IN  shorter \cup {p \o S(".") \o a : p \in shorter, a \in AttrNames}

FullNames == {<<>>} \cup DottedNames(MaxDepth)

\* The info dicts over the full names fs: complete ones, and ones that lack a key.
InfosOver(fs) ==
    {[module |-> m, fullname |-> f] : m \in ModuleNames, f \in fs}
    \cup {[module |-> m] : m \in ModuleNames}
    \cup {[fullname |-> S("Gate")], NoAttrs}

\* SpecLink calls linkcode_resolve on every dotted name of the bound (in the
\* domain "py"; another domain never reads info, and gets the top-level
\* names); Spec, where the environment changes too, on the top-level names.
Infos == InfosOver(FullNames)
BuildInfos == InfosOver(AttrNames)

Domains == {"py", "js"}

NoCall == [domain |-> "", info |-> NoAttrs, outcome |-> Null]

(***************************************************************************)
(* The state machine.                                                      *)
(***************************************************************************)
\* Sphinx executes conf.py: line 195 binds GITHUB_BRANCH, or the exception of
\* determine_github_branch ends the execution before line 198 defines
\* linkcode_resolve.
ExecuteConf ==
    /\ pc = "init"
    /\ LET r == determine_github_branch(environ)
       IN  IF r.kind = "return"
           THEN /\ GITHUB_BRANCH' = r.value
                /\ pc' = "loaded"
                /\ raised' = raised
           ELSE /\ GITHUB_BRANCH' = GITHUB_BRANCH
                /\ pc' = "failed"
                /\ raised' = r.exc
    /\ UNCHANGED <<environ, sys_modules, last>>

\* Mutant: the branch is determined again from the environment at each call.
linkcode_resolve_reread(domain, info) ==
    /\ pc = "loaded"
    /\ LET r == determine_github_branch(environ)
           branch == IF r.kind = "return" THEN r.value ELSE S("main")
       IN  last' = [domain |-> domain, info |-> info,
                    outcome |-> linkcode_result(domain, info, sys_modules, branch)]
    /\ UNCHANGED <<environ, sys_modules, pc, GITHUB_BRANCH, raised>>

\* Mutant: a module that is not loaded is imported for the next call.
linkcode_resolve_importing(domain, info) ==
    /\ pc = "loaded"
    /\ last' = [domain |-> domain, info |-> info,
                outcome |-> linkcode_result(domain, info, sys_modules, GITHUB_BRANCH)]
    /\ sys_modules' = IF domain = "py" /\ "module" \in DOMAIN info
                      THEN sys_modules \cup {info["module"]}
                      ELSE sys_modules
    /\ UNCHANGED <<environ, pc, GITHUB_BRANCH, raised>>

\* Sphinx calls linkcode_resolve(domain, info), lines 198-229.
linkcode_resolve(domain, info) ==
    /\ pc = "loaded"
    /\ last' = [domain |-> domain, info |-> info,
                outcome |-> linkcode_result(domain, info, sys_modules, GITHUB_BRANCH)]
    /\ UNCHANGED <<environ, sys_modules, pc, GITHUB_BRANCH, raised>>

\* The process around conf.py sets or removes an environment variable.
SetEnv(k, v) ==
    /\ environ' = [x \in DOMAIN environ \cup {k} |-> IF x = k THEN v ELSE environ[x]]
    /\ UNCHANGED <<sys_modules, pc, GITHUB_BRANCH, raised, last>>

UnsetEnv(k) ==
    /\ k \in DOMAIN environ
    /\ environ' = [x \in DOMAIN environ \ {k} |-> environ[x]]
    /\ UNCHANGED <<sys_modules, pc, GITHUB_BRANCH, raised, last>>

\* The documented package is imported (by autodoc, not by conf.py); importing
\* a submodule imports its package first.
ImportModule(m) ==
    /\ m \notin sys_modules
    /\ m = "qiskit.circuit" => "qiskit" \in sys_modules
    /\ sys_modules' = sys_modules \cup {m}
    /\ UNCHANGED <<environ, pc, GITHUB_BRANCH, raised, last>>

\* Spec: a documentation build.
Init ==
    /\ environ \in Envs(BuildRefNames, BuildBaseRefs, RefTypes)
    /\ sys_modules = {}
    /\ pc = "init"
    /\ GITHUB_BRANCH = <<>>
    /\ raised = ""
    /\ last = NoCall

Next ==
    \/ ExecuteConf
    \/ \E d \in Domains, i \in BuildInfos : linkcode_resolve(d, i)
    \/ \E k \in EnvVars : \E v \in BuildValues(k) : SetEnv(k, v)
    \/ \E k \in EnvVars : UnsetEnv(k)
    \/ \E m \in ModuleNames : ImportModule(m)

Spec == Init /\ [][Next]_vars

\* SpecBranch: determine_github_branch on every environment of the bounds.
InitBranch ==
    /\ environ \in Envs(RefNames, BaseRefs, RefTypes)
    /\ sys_modules = {}
    /\ pc = "init"
    /\ GITHUB_BRANCH = <<>>
    /\ raised = ""
    /\ last = NoCall

NextBranch == ExecuteConf

SpecBranch == InitBranch /\ [][NextBranch]_vars

\* SpecLink: linkcode_resolve on every input of the bounds, for every set of
\* loaded modules, after conf.py was executed in a local build or in the
\* build of a release tag.
LinkEnvs == {MkEnv(<<>>, <<>>, <<>>), MkEnv(<<S("1.2.3rc1")>>, <<>>, <<S("tag")>>)}

InitLink ==
    /\ environ \in LinkEnvs
    /\ sys_modules \in {ms \in SUBSET ModuleNames :
                            "qiskit.circuit" \in ms => "qiskit" \in ms}
    /\ pc = "init"
    /\ GITHUB_BRANCH = <<>>
    /\ raised = ""
    /\ last = NoCall

NextLink ==
    \/ ExecuteConf
    \/ \E i \in Infos : linkcode_resolve("py", i)
    \/ \E i \in BuildInfos : linkcode_resolve("js", i)

SpecLink == InitLink /\ [][NextLink]_vars

(***************************************************************************)
(* Properties of determine_github_branch.  A digit is a decimal digit,     *)
(* ASCII or not, as for \d.                                                *)
(***************************************************************************)
Has(k) == k \in DOMAIN environ
BaseRefGiven == Has("GITHUB_BASE_REF") /\ environ["GITHUB_BASE_REF"] # <<>>
AllDigits(s) == \A i \in 1..Len(s) : s[i] \in Digits

\* s is <digits>.<digits>
IsMajorMinor(s) ==
    \E d \in 2..(Len(s) - 1) :
        /\ s[d] = "."
        /\ AllDigits(SubSeq(s, 1, d - 1))
        /\ AllDigits(SubSeq(s, d + 1, Len(s)))

\* s starts with <digits>.<digits>
StartsWithMajorMinor(s) == \E n \in 1..Len(s) : IsMajorMinor(SubSeq(s, 1, n))

\* The ref is a tag: a ref name, no base ref, and a ref type other than "branch".
RefIsTag ==
    /\ Has("GITHUB_REF_NAME")
    /\ ~BaseRefGiven
    /\ Has("GITHUB_REF_TYPE") /\ environ["GITHUB_REF_TYPE"] # S("branch")

\* The environment without GITHUB_BASE_REF.
WithoutBaseRef == [k \in DOMAIN environ \ {"GITHUB_BASE_REF"} |-> environ[k]]

\* C1: determine_github_branch fails only on a malformed tag: whenever the
\* execution of conf.py failed, the ref was a tag (ref name set, no base ref,
\* ref type set and not "branch") whose name does not start with
\* <digits>.<digits>.  In particular it does not fail when GITHUB_REF_TYPE is
\* absent.
C1_FailsOnlyOnMalformedTag ==
    pc = "failed" =>
        RefIsTag /\ ~StartsWithMajorMinor(environ["GITHUB_REF_NAME"])

\* C2: the rules apply in strict priority order: no ref name gives "main";
\* otherwise a non-empty base ref is returned verbatim, whatever the ref type
\* and the ref name; otherwise the ref type "branch" gives the ref name
\* verbatim; the ref name is matched as a tag only when none of these holds;
\* and an empty base ref gives what an absent one gives.
C2_PriorityOrder ==
    pc # "init" =>
        /\ ~Has("GITHUB_REF_NAME") => pc = "loaded" /\ GITHUB_BRANCH = S("main")
        /\ Has("GITHUB_REF_NAME") /\ BaseRefGiven =>
               pc = "loaded" /\ GITHUB_BRANCH = environ["GITHUB_BASE_REF"]
        /\ Has("GITHUB_REF_NAME") /\ ~BaseRefGiven /\ Has("GITHUB_REF_TYPE")
               /\ environ["GITHUB_REF_TYPE"] = S("branch") =>
               pc = "loaded" /\ GITHUB_BRANCH = environ["GITHUB_REF_NAME"]
        /\ raised = "AttributeError" => RefIsTag
        /\ Has("GITHUB_BASE_REF") /\ environ["GITHUB_BASE_REF"] = <<>> =>
               LET r == determine_github_branch(WithoutBaseRef)
               IN  IF r.kind = "return"
                   THEN pc = "loaded" /\ GITHUB_BRANCH = r.value
                   ELSE pc = "failed" /\ raised = r.exc

\* A base ref wins over a missing ref type and a malformed ref name.
C2_Witness ==
    /\ pc = "loaded"
    /\ Has("GITHUB_REF_NAME") /\ environ["GITHUB_REF_NAME"] = S("notaversion")
    /\ Has("GITHUB_BASE_REF") /\ environ["GITHUB_BASE_REF"] = S("stable/1.0")
    /\ ~Has("GITHUB_REF_TYPE")
    /\ GITHUB_BRANCH = S("stable/1.0")

\* C3: for a tag whose name starts with <digits>.<digits>, the branch is
\* "stable/" followed by exactly that leading prefix: the whole major and the
\* whole minor number, and nothing of what follows them.
C3_StableBranchOfTag ==
    pc # "init" /\ RefIsTag /\ StartsWithMajorMinor(environ["GITHUB_REF_NAME"]) =>
        LET name == environ["GITHUB_REF_NAME"]
        IN  /\ pc = "loaded"
            /\ \E n \in 1..Len(name) :
                   /\ IsMajorMinor(SubSeq(name, 1, n))
                   /\ n = Len(name) \/ name[n + 1] \notin Digits
                   /\ GITHUB_BRANCH = S("stable/") \o SubSeq(name, 1, n)
            /\ name \in {S("1.2.3"), S("1.2.3rc1")} => GITHUB_BRANCH = S("stable/1.2")
            /\ name = S("10.12.0") => GITHUB_BRANCH = S("stable/10.12")

C3_Witness ==
    /\ pc = "loaded" /\ RefIsTag
    /\ environ["GITHUB_REF_NAME"] = S("10.12.0")
    /\ GITHUB_BRANCH = S("stable/10.12")

\* C4: a malformed tag fails fatally and never yields a link: executing
\* conf.py with a tag whose name does not start with <digits>.<digits> ends in
\* the failure, binds no branch, and after a failed execution
\* linkcode_resolve is never called.
C4_MalformedTagIsFatal ==
    /\ [][(pc = "init" /\ pc' # "init" /\ RefIsTag
              /\ ~StartsWithMajorMinor(environ["GITHUB_REF_NAME"]))
            => (pc' = "failed" /\ raised' # "" /\ GITHUB_BRANCH' = <<>>)]_vars
    /\ [][pc = "failed" => pc' = "failed" /\ last' = NoCall]_vars
    /\ [](pc = "failed" => last = NoCall /\ GITHUB_BRANCH = <<>>)

C4_Witness ==
    /\ pc = "failed" /\ raised = "AttributeError"
    /\ RefIsTag /\ environ["GITHUB_REF_NAME"] = S("notaversion")

(***************************************************************************)
(* Properties of linkcode_resolve.  They are stated on the latest call,    *)
(* with the dotted name resolved by attribute access alone.                *)
(***************************************************************************)
\* The object the attributes parts[i..] lead to from obj, "" when one is missing.
RECURSIVE AttrWalk(_, _, _)
AttrWalk(obj, parts, i) ==
    IF i > Len(parts) THEN obj
    ELSE IF parts[i] \notin DOMAIN Heap[obj].attrs THEN ""
    ELSE AttrWalk(Heap[obj].attrs[parts[i]], parts, i + 1)

\* The latest call had domain "py", a complete info and a loaded module.  (No
\* step of SpecLink changes sys_modules, so it is the set the call saw.)
PyCall ==
    /\ last.domain = "py"
    /\ DOMAIN last.info = {"module", "fullname"}
    /\ last.info["module"] \in sys_modules

Resolved ==
    AttrWalk(ModuleObject[last.info["module"]], Split(last.info["fullname"], "."), 1)

\* a class OR a method OR (a function AND NOT a built-in)
Linkable(o) ==
    \/ Heap[o].kind = "class"
    \/ Heap[o].kind = "method"
    \/ (Heap[o].kind = "function" /\ Heap[o].kind # "builtin")

\* The objects whose source file lies in the repository, with the path of
\* that file relative to the repository root.
PathInRepository ==
    ("c_Gate" :> S("qiskit/circuit/gate.py"))
    @@ ("f_Gate_run" :> S("qiskit/circuit/gate.py"))
    @@ ("bm_Gate" :> S("qiskit/circuit/gate.py"))
    @@ ("f_run" :> S("qiskit/run.py"))

HasPrefix(s, p) == Len(p) <= Len(s) /\ SubSeq(s, 1, Len(p)) = p
SourceFileKnown(o) == Heap[o].sourcefile.kind = "return"

\* C5: a missing attribute on the dotted path is propagated: a "py" call on a
\* loaded module whose fullname has a component that is not an attribute of
\* the object the preceding components lead to raises AttributeError,
\* whatever kind of object that is.
C5_MissingAttributeRaises ==
    PyCall /\ Resolved = "" => last.outcome = Raise("AttributeError")

\* C6: the validation rule is applied to the final object of the path: when
\* every attribute exists, the call returns None at the validation step if the
\* final object is not linkable, and otherwise goes on to the source lookup of
\* the final object, whatever the kinds of the objects in between.
C6_ValidationOfFinalObject ==
    PyCall /\ Resolved # "" =>
        last.outcome = IF Linkable(Resolved)
                       THEN link_of(Resolved, GITHUB_BRANCH)
                       ELSE Null

\* The conditions under which no link is to be made.
NoLinkCondition ==
    \/ last.domain # "py"
    \/ last.domain = "py" /\ "module" \in DOMAIN last.info
          /\ last.info["module"] \notin sys_modules
    \/ PyCall /\ Resolved # "" /\
          \/ ~Linkable(Resolved)
          \/ ~SourceFileKnown(Resolved)
          \/ ~Contains(Heap[Resolved].sourcefile.value, S("qiskit"))
          \/ Resolved \notin DOMAIN PathInRepository

\* C7: every "no link" condition returns None rather than raising: another
\* domain, a module that is not loaded, an object that is not linkable, an
\* object without a determinable source file, a source file that does not
\* contain "qiskit" or lies outside the repository root.
C7_NoLinkIsNull ==
    last # NoCall /\ NoLinkCondition => last.outcome = Null

\* C8: GITHUB_BRANCH is write-once: the execution of conf.py binds it to what
\* determine_github_branch gives for the environment of that moment, no later
\* step changes it, a call of linkcode_resolve leaves the environment alone,
\* and every URL returned embeds it, whatever the environment has become.
C8_BranchIsWriteOnce ==
    [][/\ pc = "init" /\ pc' = "loaded" =>
              determine_github_branch(environ) = Return(GITHUB_BRANCH')
       /\ pc = "loaded" => pc' = "loaded" /\ GITHUB_BRANCH' = GITHUB_BRANCH
       /\ last' # last =>
              /\ environ' = environ
              /\ last'.outcome.kind = "return" =>
                     HasPrefix(last'.outcome.value,
                               UrlPrefix \o GITHUB_BRANCH \o S("/"))
      ]_vars

\* A URL was returned, and the environment of now gives another branch.
C8_Witness ==
    /\ pc = "loaded"
    /\ last.outcome.kind = "return"
    /\ HasPrefix(last.outcome.value, UrlPrefix \o S("stable/1.2/"))
    /\ GITHUB_BRANCH = S("stable/1.2")
    /\ determine_github_branch(environ) = Return(S("notaversion"))

\* C9: linkcode_resolve is idempotent and free of side effects: a call
\* changes nothing but its own result, and the same call made again right
\* after it has the same outcome.
C9_Idempotent ==
    [][last' # last =>
          /\ UNCHANGED <<environ, sys_modules, pc, GITHUB_BRANCH, raised>>
          /\ linkcode_result(last'.domain, last'.info, sys_modules', GITHUB_BRANCH')
                 = last'.outcome
      ]_vars

C9_Witness ==
    /\ last.outcome.kind = "return"
    /\ last.info["module"] = "qiskit.circuit" /\ last.info["fullname"] = S("Gate.run")
    /\ linkcode_result(last.domain, last.info, sys_modules, GITHUB_BRANCH) = last.outcome

\* The linespec a URL is to carry for the object o.
ExpectedLinespec(o) ==
    IF Heap[o].lines.lineno = 0
    THEN <<>>
    ELSE S("#L") \o S(ToString(Heap[o].lines.lineno)) \o S("-L")
              \o S(ToString(Heap[o].lines.lineno + Heap[o].lines.count - 1))

\* C10: every URL returned is the base, the branch, "/", the source file
\* relative to the repository root and the linespec "#L<start>-L<end>" with
\* end = start + lines - 1 >= start; when the source lines cannot be read the
\* linespec is empty and the file-level URL is still returned.
C10_UrlFormat ==
    /\ last.outcome.kind = "return" =>
          /\ PyCall /\ Resolved \in DOMAIN PathInRepository
          /\ LET lines == Heap[Resolved].lines
             IN  /\ lines.lineno # 0 => lines.lineno + lines.count - 1 >= lines.lineno
                 /\ last.outcome.value =
                        S("https://github.com/Qiskit/qiskit/tree/") \o GITHUB_BRANCH
                        \o S("/") \o PathInRepository[Resolved]
                        \o ExpectedLinespec(Resolved)
    /\ (PyCall /\ Resolved = "f_run") =>
          last.outcome = Return(S("https://github.com/Qiskit/qiskit/tree/")
                                \o GITHUB_BRANCH \o S("/qiskit/run.py"))

C10_Witness ==
    /\ GITHUB_BRANCH = S("stable/1.2")
    /\ last.outcome = Return(S(
          "https://github.com/Qiskit/qiskit/tree/stable/1.2/qiskit/circuit/gate.py#L98-L102"))

====
